---- MODULE Spec2Model ----
(***************************************************************************)
(* A model of the crawl engine of web-crawler-json: WebCrawler.crawl,      *)
(* processQueue, crawlPage, makeRequest, handleCrawlError and              *)
(* addLinksToQueue, with the helpers of UrlUtils and DataExtractor that    *)
(* they call.  The network is the environment: every axios.get ends in a   *)
(* response with some status or in a transport error, chosen freely at     *)
(* each attempt, and the document of a response is chosen freely among     *)
(* the documents of a small site.                                          *)
(***************************************************************************)
EXTENDS Integers, Sequences, FiniteSets, TLC

VARIABLES
    options,      \* this.options (read-only after construction)
    visited,      \* this.visited
    queue,        \* this.queue
    results,      \* this.results
    failedUrls,   \* this.failedUrls
    skippedUrls,  \* this.skippedUrls
    robots,       \* this.robots
    baseUrl,      \* this.baseUrl
    baseDomain,   \* this.baseDomain
    pc,           \* where crawl / processQueue stands
    cur,          \* the destructured { url, depth, parent } of the iteration
    retryCount,   \* makeRequest's retryCount argument
    lastOutcome,  \* outcome of the latest axios.get of the iteration
    fetches,      \* axios.get calls made for cur.url in this iteration
    sleeps,       \* backoff sleeps of the makeRequest call of the iteration
    paused,       \* sleeps of processQueue since the latest fetch ended
    crawlCalls,   \* history: number of crawlPage invocations per URL
    recorded,     \* history: work item behind every output record
    dropped,      \* history: work items dropped by the depth check
    sessions,     \* history: number of crawl() calls on the instance
    enqueued      \* history: every work item pushed to the queue

vars == <<options, visited, queue, results, failedUrls, skippedUrls, robots,
          baseUrl, baseDomain, pc, cur, retryCount, lastOutcome, fetches,
          sleeps, paused, crawlCalls, recorded, dropped, sessions,
          enqueued>>

----------------------------------------------------------------------------
\* Bounds of the model

MaxPagesOpt == 2
MaxDepthOpt == 2
MaxRetriesOpt == 1

----------------------------------------------------------------------------
\* Values.  A field the code sets to null or to a string holds Null or
\* Str(s); `${value}` of a template literal is toString[value].

Null == [type |-> "null"]

Str(s) == [type |-> "string", value |-> s]

Values == {Null} \cup [type : {"string"}, value : STRING]

toString[v \in Values] == IF v = Null THEN "null" ELSE v.value

----------------------------------------------------------------------------
\* Strings.  The methods of String.prototype the code calls, on strings of
\* letters, digits and the characters of punctuation; positions count from 0
\* as in JavaScript.

slice[s \in STRING, from \in Int, to \in Int] == SubSeq(s, from + 1, to)

sliceFrom[s \in STRING, from \in Int] == SubSeq(s, from + 1, Len(s))

startsWith[s \in STRING, t \in STRING] ==
    Len(t) <= Len(s) /\ SubSeq(s, 1, Len(t)) = t

endsWith[s \in STRING, t \in STRING] ==
    Len(t) <= Len(s) /\ SubSeq(s, Len(s) - Len(t) + 1, Len(s)) = t

indexOfFrom[s \in STRING, t \in STRING, i \in Int] ==
    IF i + Len(t) > Len(s) THEN -1
    ELSE IF SubSeq(s, i + 1, i + Len(t)) = t THEN i
    ELSE indexOfFrom[s, t, i + 1]

indexOf[s \in STRING, t \in STRING] == indexOfFrom[s, t, 0]

lastIndexOfFrom[s \in STRING, t \in STRING, i \in Int] ==
    IF i < 0 THEN -1
    ELSE IF SubSeq(s, i + 1, i + Len(t)) = t THEN i
    ELSE lastIndexOfFrom[s, t, i - 1]

includes[s \in STRING, t \in STRING] == indexOf[s, t] # -1

lowerOf ==
    [A |-> "a", B |-> "b", C |-> "c", D |-> "d", E |-> "e", F |-> "f",
     G |-> "g", H |-> "h", I |-> "i", J |-> "j", K |-> "k", L |-> "l",
     M |-> "m", N |-> "n", O |-> "o", P |-> "p", Q |-> "q", R |-> "r",
     S |-> "s", T |-> "t", U |-> "u", V |-> "v", W |-> "w", X |-> "x",
     Y |-> "y", Z |-> "z"]

upperCase == DOMAIN lowerOf

lowerCase == { lowerOf[c] : c \in upperCase }

digits == {"0", "1", "2", "3", "4", "5", "6", "7", "8", "9"}

toLowerCase[s \in STRING] ==
    IF s = "" THEN ""
    ELSE (IF SubSeq(s, 1, 1) \in upperCase
          THEN lowerOf[SubSeq(s, 1, 1)] ELSE SubSeq(s, 1, 1))
             \o toLowerCase[SubSeq(s, 2, Len(s))]

\* the characters that are no letters and no digits, with their code units
punctuation ==
    << <<" ", 32>>, <<"#", 35>>, <<"%", 37>>, <<"&", 38>>, <<"+", 43>>,
       <<",", 44>>, <<"-", 45>>, <<".", 46>>, <<"/", 47>>, <<":", 58>>,
       <<"=", 61>>, <<"?", 63>>, <<"_", 95>> >>

\* the code unit of a character, -1 for what is no character of the model
charCode[c \in STRING] ==
    IF Len(c) # 1 THEN -1
    ELSE IF c \in digits THEN 48 + indexOf["0123456789", c]
    ELSE IF c \in upperCase THEN 65 + indexOf["ABCDEFGHIJKLMNOPQRSTUVWXYZ", c]
    ELSE IF c \in lowerCase THEN 97 + indexOf["abcdefghijklmnopqrstuvwxyz", c]
    ELSE IF \E i \in 1..Len(punctuation) : punctuation[i][1] = c
    THEN punctuation[CHOOSE i \in 1..Len(punctuation) : punctuation[i][1] = c][2]
    ELSE -1

\* String.fromCharCode, "" for a code unit of no character of the model
fromCharCode[code \in Int] ==
    IF code \in 48..57 THEN SubSeq("0123456789", code - 47, code - 47)
    ELSE IF code \in 65..90
    THEN SubSeq("ABCDEFGHIJKLMNOPQRSTUVWXYZ", code - 64, code - 64)
    ELSE IF code \in 97..122
    THEN SubSeq("abcdefghijklmnopqrstuvwxyz", code - 96, code - 96)
    ELSE IF \E i \in 1..Len(punctuation) : punctuation[i][2] = code
    THEN punctuation[CHOOSE i \in 1..Len(punctuation) : punctuation[i][2] = code][1]
    ELSE ""

charCodeAt[s \in STRING, i \in Int] == charCode[SubSeq(s, i + 1, i + 1)]

\* s < t, the order Array.prototype.sort uses without a comparator
lessThan[s \in STRING, t \in STRING] ==
    IF t = "" THEN FALSE
    ELSE IF s = "" THEN TRUE
    ELSE IF charCodeAt[s, 0] # charCodeAt[t, 0]
    THEN charCodeAt[s, 0] < charCodeAt[t, 0]
    ELSE lessThan[sliceFrom[s, 1], sliceFrom[t, 1]]

split[s \in STRING, separator \in STRING] ==
    IF indexOf[s, separator] = -1 THEN <<s>>
    ELSE <<slice[s, 0, indexOf[s, separator]]>>
             \o split[sliceFrom[s, indexOf[s, separator] + Len(separator)],
                      separator]

join[parts \in Seq(STRING), separator \in STRING] ==
    IF parts = <<>> THEN ""
    ELSE IF Len(parts) = 1 THEN parts[1]
    ELSE parts[1] \o separator \o join[Tail(parts), separator]

\* the white space of the model: space, tab, line feed, form feed, return
whiteSpace == {" ", "\t", "\n", "\f", "\r"}

\* the texts of the model: strings of its characters and of whiteSpace.
\* \s matches other characters too (U+000B, U+00A0, ...), which none holds.
Text ==
    { t \in STRING :
          \A i \in 1..Len(t) :
              SubSeq(t, i, i) \in whiteSpace \/ charCode[SubSeq(t, i, i)] # -1 }

\* String.prototype.trim
trim[s \in STRING] ==
    IF s = "" THEN s
    ELSE IF SubSeq(s, 1, 1) \in whiteSpace THEN trim[sliceFrom[s, 1]]
    ELSE IF SubSeq(s, Len(s), Len(s)) \in whiteSpace
    THEN trim[slice[s, 0, Len(s) - 1]]
    ELSE s

\* the words of text.split(/\s+/).filter(word => word.length > 0): the runs
\* of characters that are no white space; inWord tells whether the
\* character before s belongs to a word
countWords[s \in Text, inWord \in BOOLEAN] ==
    IF s = "" THEN 0
    ELSE IF SubSeq(s, 1, 1) \in whiteSpace THEN countWords[sliceFrom[s, 1], FALSE]
    ELSE (IF inWord THEN 0 ELSE 1) + countWords[sliceFrom[s, 1], TRUE]

----------------------------------------------------------------------------
\* URLs.  new URL(input) and new URL(input, base) as the URL Standard
\* defines them, for the inputs the model covers: strings of letters, digits and
\* the characters of punctuation, with the scheme http or https or none,
\* with a host of labels of letters, digits, "-" and "_" that is no number
\* and no internationalized name, and with percent-encoded bytes of
\* characters of the model only.  A parsed URL is the record of its
\* components; search and hash hold their "?" and "#".

Url == [protocol : STRING, hostname : STRING, port : STRING,
        pathname : STRING, search : STRING, hash : STRING]

\* what stands for the TypeError of new URL on an input that is no URL
NoUrl == [protocol |-> "", hostname |-> "", port |-> "", pathname |-> "",
          search |-> "", hash |-> ""]

\* what stands for an input the model does not cover; it is no URL record,
\* and what is defined on Url is not defined on it
NotCovered == [covered |-> FALSE]

inAlphabet[s \in STRING] ==
    \A i \in 1..Len(s) : charCode[SubSeq(s, i, i)] # -1

\* the value of a hexadecimal digit, -1 for another character
hexValue[c \in STRING] ==
    IF Len(c) # 1 THEN -1
    ELSE IF indexOf["0123456789ABCDEF", c] # -1 THEN indexOf["0123456789ABCDEF", c]
    ELSE indexOf["0123456789abcdef", c]

\* the byte of the percent-encoded triple s starts with, -1 if it is none
percentByte[s \in STRING] ==
    IF Len(s) < 3 \/ hexValue[SubSeq(s, 2, 2)] = -1 \/ hexValue[SubSeq(s, 3, 3)] = -1
    THEN -1
    ELSE 16 * hexValue[SubSeq(s, 2, 2)] + hexValue[SubSeq(s, 3, 3)]

\* every "%" of s starts the encoding of a character of the model
wellEncoded[s \in STRING] ==
    IF s = "" THEN TRUE
    ELSE IF SubSeq(s, 1, 1) = "%"
    THEN fromCharCode[percentByte[s]] # "" /\ wellEncoded[sliceFrom[s, 3]]
    ELSE wellEncoded[sliceFrom[s, 1]]

\* the percent-encoding of a byte
percentEncode[byte \in Int] ==
    "%" \o SubSeq("0123456789ABCDEF", (byte \div 16) + 1, (byte \div 16) + 1)
        \o SubSeq("0123456789ABCDEF", (byte % 16) + 1, (byte % 16) + 1)

\* the URL parser leaves the characters of the model in a path, a query and
\* a fragment as they are, but for the space
encodeSpaces[s \in STRING] == join[split[s, " "], "%20"]

isScheme[s \in STRING] ==
    /\ s # ""
    /\ SubSeq(s, 1, 1) \in upperCase \cup lowerCase
    /\ \A i \in 1..Len(s) :
           SubSeq(s, i, i) \in upperCase \cup lowerCase \cup digits
                                   \cup {"+", "-", "."}

\* the fragment of an input with its "#", and the input without it
hashOf[s \in STRING] ==
    IF indexOf[s, "#"] = -1 THEN "" ELSE sliceFrom[s, indexOf[s, "#"]]

beforeHash[s \in STRING] ==
    IF indexOf[s, "#"] = -1 THEN s ELSE slice[s, 0, indexOf[s, "#"]]

\* the query of an input with its "?", and the input up to it
queryOf[s \in STRING] ==
    IF indexOf[beforeHash[s], "?"] = -1 THEN ""
    ELSE sliceFrom[beforeHash[s], indexOf[beforeHash[s], "?"]]

beforeQuery[s \in STRING] ==
    IF indexOf[beforeHash[s], "?"] = -1 THEN beforeHash[s]
    ELSE slice[s, 0, indexOf[beforeHash[s], "?"]]

\* the segments of a path without its "." and ".." segments, in whatever
\* spelling
shorten[segments \in Seq(STRING), out \in Seq(STRING)] ==
    IF segments = <<>> THEN out
    ELSE IF toLowerCase[Head(segments)] \in {"..", ".%2e", "%2e.", "%2e%2e"}
    THEN shorten[Tail(segments),
                 (IF out = <<>> THEN out ELSE SubSeq(out, 1, Len(out) - 1))
                     \o (IF Len(segments) = 1 THEN <<"">> ELSE <<>>)]
    ELSE IF toLowerCase[Head(segments)] \in {".", "%2e"}
    THEN shorten[Tail(segments),
                 out \o (IF Len(segments) = 1 THEN <<"">> ELSE <<>>)]
    ELSE shorten[Tail(segments), Append(out, Head(segments))]

removeDotSegments[path \in STRING] ==
    IF ~includes[path, "/."] /\ ~includes[toLowerCase[path], "/%2e"] THEN path
    ELSE "/" \o join[shorten[split[sliceFrom[path, 1], "/"], <<>>], "/"]

allDigits[s \in STRING] == \A i \in 1..Len(s) : SubSeq(s, i, i) \in digits

\* the number the digits of a port stand for after n, 65536 for any number
\* above 65535
portNumber[port \in STRING, n \in Int] ==
    IF port = "" THEN n
    ELSE IF 10 * n + indexOf["0123456789", SubSeq(port, 1, 1)] > 65535
    THEN portNumber[sliceFrom[port, 1], 65536]
    ELSE portNumber[sliceFrom[port, 1],
                    10 * n + indexOf["0123456789", SubSeq(port, 1, 1)]]

\* the port of a URL: none when it is not given or the one of the scheme
portOf[protocol \in STRING, port \in STRING] ==
    IF port = "" \/ ToString(portNumber[port, 0]) = (IF protocol = "https:" THEN "443" ELSE "80")
    THEN ""
    ELSE ToString(portNumber[port, 0])

\* the labels of a host the model covers: the host is no longer than 253,
\* none of its labels is empty, longer than 63, an
\* "xn--" label or of other characters, and the last is not one the host
\* parser reads as a number
coveredLabels[labels \in Seq(STRING)] ==
    /\ Len(join[labels, "."]) <= 253
    /\ \A i \in 1..Len(labels) :
           /\ labels[i] # ""
           /\ Len(labels[i]) <= 63
           /\ ~startsWith[labels[i], "xn--"]
           /\ \A k \in 1..Len(labels[i]) :
                  SubSeq(labels[i], k, k) \in lowerCase \cup digits \cup {"-", "_"}
    /\ ~allDigits[labels[Len(labels)]]
    /\ ~ /\ startsWith[labels[Len(labels)], "0x"]
         /\ \A k \in 3..Len(labels[Len(labels)]) :
                hexValue[SubSeq(labels[Len(labels)], k, k)] # -1

\* the URL of a scheme, a host, a port and a path; no URL without a host,
\* with a space in the host or with a port that is no number up to 65535
withAuthority[protocol \in STRING, host \in STRING, port \in STRING, path \in STRING, search \in STRING, hash \in STRING] ==
    IF host = "" \/ includes[host, " "] \/ ~allDigits[port] \/ portNumber[port, 0] > 65535
    THEN NoUrl
    ELSE IF ~coveredLabels[split[host, "."]] THEN NotCovered
    ELSE [protocol |-> protocol,
          hostname |-> host,
          port |-> portOf[protocol, port],
          pathname |-> IF path = "" THEN "/" ELSE removeDotSegments[path],
          search |-> search,
          hash |-> hash]

\* host and port of an authority
hostPort[protocol \in STRING, authority \in STRING, path \in STRING, search \in STRING, hash \in STRING] ==
    withAuthority[protocol,
        toLowerCase[IF indexOf[authority, ":"] = -1 THEN authority
                    ELSE slice[authority, 0, indexOf[authority, ":"]]],
        IF indexOf[authority, ":"] = -1 THEN ""
        ELSE sliceFrom[authority, indexOf[authority, ":"] + 1],
        path, search, hash]

\* authority and path of what follows the slashes of a URL
parseAuthority[protocol \in STRING, rest \in STRING, search \in STRING, hash \in STRING] ==
    hostPort[protocol,
        IF indexOf[rest, "/"] = -1 THEN rest
        ELSE slice[rest, 0, indexOf[rest, "/"]],
        IF indexOf[rest, "/"] = -1 THEN ""
        ELSE encodeSpaces[sliceFrom[rest, indexOf[rest, "/"]]],
        search, hash]

stripSlashes[s \in STRING] ==
    IF startsWith[s, "/"] THEN stripSlashes[sliceFrom[s, 1]] ELSE s

\* a reference without a scheme, or with the scheme of base and no "//"
\* after it, resolved against base
parseRelative[body \in STRING, search \in STRING, hash \in STRING, base \in Url] ==
    IF startsWith[body, "//"]
    THEN parseAuthority[base.protocol, stripSlashes[body], search, hash]
    ELSE IF startsWith[body, "/"]
    THEN [base EXCEPT !.pathname = removeDotSegments[encodeSpaces[body]],
                      !.search = search, !.hash = hash]
    ELSE IF body = ""
    THEN \* the empty query "?" of the base is not taken over
         [base EXCEPT !.search = IF search # "" THEN search
                                 ELSE IF base.search = "?" THEN ""
                                 ELSE base.search,
                      !.hash = hash]
    ELSE [base EXCEPT
              !.pathname = removeDotSegments[
                  slice[base.pathname, 0, lastIndexOfFrom[base.pathname, "/", Len(base.pathname) - 1] + 1]
                      \o encodeSpaces[body]],
              !.search = search, !.hash = hash]

\* an input with a scheme
parseAbsolute[protocol \in STRING, rest \in STRING, search \in STRING, hash \in STRING, base \in Url] ==
    IF protocol \notin {"http:", "https:"} THEN NotCovered
    ELSE IF base.protocol = protocol /\ ~startsWith[rest, "//"]
    THEN parseRelative[rest, search, hash, base]
    ELSE parseAuthority[protocol, stripSlashes[rest], search, hash]

\* body, query and fragment of an input.  An input with a segment that
\* begins with "." and is no "." or ".." segment is not covered: the URL
\* parser of Node.js can leave the "." and ".." segments after it in the
\* path, where the URL Standard removes them.
parseParts[body \in STRING, search \in STRING, hash \in STRING, base \in Url] ==
    IF \E i \in 1..Len(split[body, "/"]) :
           /\ startsWith[split[body, "/"][i], "."]
           /\ split[body, "/"][i] \notin {".", ".."}
    THEN NotCovered
    ELSE IF indexOf[body, ":"] # -1 /\ isScheme[slice[body, 0, indexOf[body, ":"]]]
    THEN parseAbsolute[toLowerCase[slice[body, 0, indexOf[body, ":"] + 1]],
                       sliceFrom[body, indexOf[body, ":"] + 1], search, hash,
                       base]
    ELSE IF base = NoUrl THEN NoUrl
    ELSE parseRelative[body, search, hash, base]

\* new URL(input, base); base = NoUrl stands for new URL(input), and a
\* result of NoUrl for the TypeError.  Leading and trailing spaces of the
\* input do not count.
parseUrl[input \in STRING, base \in Url] ==
    IF ~inAlphabet[input] \/ ~wellEncoded[input]
    THEN NotCovered
    ELSE parseParts[beforeQuery[trim[input]], encodeSpaces[queryOf[trim[input]]],
                    encodeSpaces[hashOf[trim[input]]], base]

\* URL.prototype.href
toHref[u \in Url] ==
    u.protocol \o "//" \o u.hostname
        \o (IF u.port = "" THEN "" ELSE ":" \o u.port)
        \o u.pathname \o u.search \o u.hash

\* the application/x-www-form-urlencoded parser on a name or a value: "+"
\* is a space, a percent-encoded byte its character
decode[s \in STRING] ==
    IF s = "" THEN ""
    ELSE IF SubSeq(s, 1, 1) = "%"
    THEN fromCharCode[percentByte[s]] \o decode[sliceFrom[s, 3]]
    ELSE IF SubSeq(s, 1, 1) = "+" THEN " " \o decode[sliceFrom[s, 1]]
    ELSE SubSeq(s, 1, 1) \o decode[sliceFrom[s, 1]]

\* the application/x-www-form-urlencoded serializer on a name or a value
encode[s \in STRING] ==
    IF s = "" THEN ""
    ELSE (IF SubSeq(s, 1, 1) \in upperCase \cup lowerCase \cup digits
                                     \cup {"-", ".", "_"}
          THEN SubSeq(s, 1, 1)
          ELSE IF SubSeq(s, 1, 1) = " " THEN "+"
          ELSE percentEncode[charCode[SubSeq(s, 1, 1)]])
             \o encode[sliceFrom[s, 1]]

\* urlObj.searchParams.entries(): the name and the value of every parameter
entriesOf[pieces \in Seq(STRING)] ==
    [i \in 1..Len(pieces) |->
        IF indexOf[pieces[i], "="] = -1 THEN <<decode[pieces[i]], "">>
        ELSE <<decode[slice[pieces[i], 0, indexOf[pieces[i], "="]]],
               decode[sliceFrom[pieces[i], indexOf[pieces[i], "="] + 1]]>>]

entries[search \in STRING] ==
    entriesOf[SelectSeq(split[sliceFrom[search, 1], "&"],
                        LAMBDA piece : piece # "")]

\* [...entries].sort(): by the strings "name,value", equal ones in place
insertEntry[sorted \in Seq(Seq(STRING)), e \in Seq(STRING)] ==
    IF sorted = <<>> THEN <<e>>
    ELSE IF lessThan[join[e, ","], join[Head(sorted), ","]]
    THEN <<e>> \o sorted
    ELSE <<Head(sorted)>> \o insertEntry[Tail(sorted), e]

sortEntries[es \in Seq(Seq(STRING))] ==
    IF es = <<>> THEN <<>>
    ELSE insertEntry[sortEntries[SubSeq(es, 1, Len(es) - 1)], es[Len(es)]]

\* new URLSearchParams(entries).toString()
searchParamsToString[es \in Seq(Seq(STRING))] ==
    join[[i \in 1..Len(es) |-> encode[es[i][1]] \o "=" \o encode[es[i][2]]], "&"]

\* return urlObj.hostname, and return null in the catch
hostnameOf[urlObj \in Url] ==
    IF urlObj = NoUrl THEN Null ELSE Str(urlObj.hostname)

getDomain[url \in STRING] == hostnameOf[parseUrl[url, NoUrl]]

isSameDomain[url1 \in STRING, url2 \in STRING] ==
    getDomain[url1] = getDomain[url2]

\* new URL(relativeUrl, baseUrl).href for a base parsed to base, and return
\* null in the catch: the TypeError of a base or of a reference that is no
\* URL
resolved[relativeUrl \in STRING, base \in Url] ==
    IF base = NoUrl \/ parseUrl[relativeUrl, base] = NoUrl THEN Null
    ELSE Str(toHref[parseUrl[relativeUrl, base]])

resolveUrl[<<pageUrl, relativeUrl>> \in STRING \X STRING] ==
    resolved[relativeUrl, parseUrl[pageUrl, NoUrl]]

\* urlObj.hash = ''; urlObj.search = ...; return urlObj.href, and return url
\* in the catch.  The setter of search puts a "?" before a string that is
\* not empty, and toString() gives the empty string for no entries only.
withoutHashSorted[url \in STRING, urlObj \in Url] ==
    IF urlObj = NoUrl THEN url
    ELSE toHref[[urlObj EXCEPT
                     !.hash = "",
                     !.search =
                         IF entries[urlObj.search] = <<>> THEN ""
                         ELSE "?" \o searchParamsToString[
                                         sortEntries[entries[urlObj.search]]]]]

normalizeUrl[url \in STRING] == withoutHashSorted[url, parseUrl[url, NoUrl]]

skipExtensions == <<".pdf", ".jpg", ".jpeg", ".png", ".gif", ".svg", ".css",
                    ".js", ".xml", ".txt">>

skipPatterns == <<"/wp-admin/", "/admin/", ".json", ".rss", ".atom">>

\* skipExtensions.some(...) || skipPatterns.some(...)
endsOrIncludes[lowerUrl \in STRING] ==
    \/ \E i \in 1..Len(skipExtensions) : endsWith[lowerUrl, skipExtensions[i]]
    \/ \E i \in 1..Len(skipPatterns) : includes[lowerUrl, skipPatterns[i]]

shouldSkipUrl[url \in STRING] == endsOrIncludes[toLowerCase[url]]


----------------------------------------------------------------------------
\* Documents.  The body of a fetched document is the sequence of its
\* elements; an element has a tag, its text, and the href attributes of the
\* anchors in it, in document order.

Elements == [tag : STRING, text : Text, hrefs : Seq(STRING)]

Element(tag, text, hrefs) == [tag |-> tag, text |-> text, hrefs |-> hrefs]

SeedUrl == "https://site.test/"
PageA == "https://site.test/a"
PageB == "https://site.test/b"
PageC == "https://site.test/c"
PageX == "https://other.test/"

\* the seed as crawl is given it: crawler.js puts "https://" before what the
\* user typed, a host name with or without a path, or a text that is none
StartUrls == { "https://site.test", SeedUrl, "https://my site" }

ReuseStartUrls == { SeedUrl, PageA }

\* a document without anything
Blank == <<>>

\* a document whose header links home and whose main part links to a and b;
\* its words stand on lines of their own
Home ==
    << Element("header", "Site name\n", <<"/">>),
       Element("main", "two\tlinks\nhere\n", <<"/a", "b">>) >>

\* a document that links back: to b, to the home page, to itself, nowhere,
\* and to a; its footer links to c
Back ==
    << Element("main", "back to the start ",
               <<"/b", "https://site.test/", "#top", "", "/a">>),
       Element("footer", "more below ", <<"/c">>) >>

\* a document with a link to another host, the same link without its
\* scheme, a link to a file, to a part of a file named with a query, and to
\* no URL at all; its menu links to the admin pages
Out ==
    << Element("nav", "menu ", <<"/admin/x">>),
       Element("main", "files and \t other sites ",
               <<"https://other.test/", "///Other.test:443", "x.PDF",
                 "doc.pdf?y=/b&x=1#p2", "https://">>) >>

Documents == { Blank, Home, Back, Out }

FairDocuments == { Home, Back }

PolicyDocuments == { Blank, Home }

\* the third document links to c
BfsDocuments == { Blank, Home, << Element("main", "one link more ", <<"/c">>) >> }

\* extractContent: $('script, style, nav, header, footer, aside').remove(),
\* the document it leaves behind
removedTags == {"script", "style", "nav", "header", "footer", "aside"}

extractContent[doc \in Seq(Elements)] ==
    SelectSeq(doc, LAMBDA element : element.tag \notin removedTags)

\* $('body').text()
bodyText[doc \in Seq(Elements)] ==
    join[[i \in 1..Len(doc) |-> doc[i].text], ""]

\* DataExtractor.getWordCount
getWordCount[doc \in Seq(Elements)] == countWords[bodyText[doc], FALSE]

\* $('a[href]'): the href attributes of the anchors of the document
anchors[doc \in Seq(Elements)] ==
    IF doc = <<>> THEN <<>> ELSE Head(doc).hrefs \o anchors[Tail(doc)]

Links == [url : STRING, isInternal : BOOLEAN]

\* DataExtractor.extractLinks: what the callback does with an anchor whose
\* href resolves to absoluteUrl
pushLink[absoluteUrl \in STRING, normalizedUrl \in STRING, domain \in Values, links \in Seq(Links), seenUrls \in SUBSET STRING] ==
    IF normalizedUrl \in seenUrls THEN <<links, seenUrls>>
    ELSE << Append(links,
                [url |-> normalizedUrl,
                 isInternal |-> isSameDomain[absoluteUrl,
                                            "https://" \o toString[domain]]]),
            seenUrls \cup {normalizedUrl} >>

\* DataExtractor.extractLinks: the callback of the each loop, from the href
\* of the anchor to the links and seenUrls it leaves
eachLink[href \in STRING, absoluteUrl \in Values, domain \in Values, links \in Seq(Links), seenUrls \in SUBSET STRING] ==
    IF href = "" THEN <<links, seenUrls>>
    ELSE IF absoluteUrl = Null THEN <<links, seenUrls>>
    ELSE IF shouldSkipUrl[absoluteUrl.value] THEN <<links, seenUrls>>
    ELSE pushLink[absoluteUrl.value, normalizeUrl[absoluteUrl.value], domain,
                  links, seenUrls]

\* DataExtractor.extractLinks: the loop over the anchors, left to right
extractLinksFrom[hrefs \in Seq(STRING), pageUrl \in STRING, domain \in Values, state \in Seq(Links) \X SUBSET STRING] ==
    IF hrefs = <<>> THEN state[1]
    ELSE extractLinksFrom[Tail(hrefs), pageUrl, domain,
             eachLink[Head(hrefs), resolveUrl[<<pageUrl, Head(hrefs)>>], domain,
                      state[1], state[2]]]

extractLinks[doc \in Seq(Elements), pageUrl \in STRING, domain \in Values] ==
    extractLinksFrom[anchors[doc], pageUrl, domain, <<<<>>, {}>>]

\* The site.  A page is a start URL or a URL some document links to from a
\* page, as many levels down as a crawl can go.  What a call yields for a
\* document, a page or a message of the site is the same every time it is
\* made; it is worked out once, kept in a table, and taken from the table:
\* memo(table, key, call) is the value of call, made for key.
AllDocuments == Documents \cup FairDocuments \cup PolicyDocuments \cup BfsDocuments

Domains == { getDomain[url] : url \in StartUrls \cup ReuseStartUrls }

pagesWithin[urls \in SUBSET STRING, levels \in Nat] ==
    IF levels = 0 THEN urls
    ELSE pagesWithin[
             urls \cup UNION {
                 { links[n].url : n \in DOMAIN links } :
                 links \in { extractLinks[extractContent[doc], url, domain] :
                                doc \in AllDocuments, url \in urls,
                                domain \in Domains } },
             levels - 1]

Pages == pagesWithin[StartUrls \cup ReuseStartUrls, MaxDepthOpt + 1]

memo(table, key, call) == IF key \in DOMAIN table THEN table[key] ELSE call

hostnames == [url \in Pages |-> getDomain[url]]

wordCounts == [doc \in AllDocuments |-> getWordCount[extractContent[doc]]]

linksOn ==
    [doc \in AllDocuments, url \in Pages, domain \in Domains |->
         extractLinks[extractContent[doc], url, domain]]

\* DataExtractor.extractPageData: the fields of the page record the crawl
\* reads; wordCount is taken after extractContent has removed its elements
extractPageData(doc, url, depth, parent) ==
    [url |-> url, depth |-> depth, parent |-> parent,
     wordCount |-> memo(wordCounts, doc, getWordCount[extractContent[doc]])]

\* crawlPage once makeRequest has returned the response: the page record
\* with the links of what extractPageData left of the document
crawlPage(doc, url, depth, parent) ==
    LET pageData == extractPageData(doc, url, depth, parent)
    IN  [url |-> pageData.url, depth |-> pageData.depth,
         parent |-> pageData.parent, wordCount |-> pageData.wordCount,
         links |-> memo(linksOn, <<doc, url, baseDomain>>,
                        extractLinks[extractContent[doc], url, baseDomain])]

\* Array.prototype.sort with (a, b) => b.wordCount - a.wordCount: stable,
\* larger word counts first
RECURSIVE insertByWordCount(_, _)
insertByWordCount(sorted, page) ==
    IF sorted = <<>> THEN <<page>>
    ELSE IF Head(sorted).wordCount >= page.wordCount
    THEN <<Head(sorted)>> \o insertByWordCount(Tail(sorted), page)
    ELSE <<page>> \o sorted

RECURSIVE sortByWordCount(_)
sortByWordCount(pages) ==
    IF pages = <<>> THEN <<>>
    ELSE insertByWordCount(sortByWordCount(SubSeq(pages, 1, Len(pages) - 1)),
                           pages[Len(pages)])

----------------------------------------------------------------------------
\* robots.txt.  robots is null until loadRobotsTxt succeeds; a loaded parser
\* holds the parsed URL of the robots.txt file and the Disallow path prefixes
\* that apply to the configured user agent.

\* variant: the constructor drops the option and leaves the default
ignoreRestrictionsOff == FALSE

\* this.options.ignoreRestrictions as the constructor sets it
ignoreRestrictions == options.ignoreRestrictions

NoRobots == [loaded |-> FALSE, url |-> NoUrl, disallow |-> {}]

RobotsRules == { {}, {"/a"}, {"/"} }

Robots == [loaded : BOOLEAN, url : Url, disallow : SUBSET STRING]

\* robotsParser(robotsUrl, contents)
robotsParser[robotsUrl \in STRING, rules \in SUBSET STRING] ==
    [loaded |-> TRUE, url |-> parseUrl[robotsUrl, NoUrl], disallow |-> rules]

\* robots.isAllowed for a URL parsed to urlObj: undefined for a URL that is
\* not of the scheme, host and port of the robots.txt file
isAllowedUrl[rb \in Robots, urlObj \in Url] ==
    IF \/ urlObj = NoUrl
       \/ urlObj.protocol # rb.url.protocol
       \/ urlObj.hostname # rb.url.hostname
       \/ urlObj.port # rb.url.port
    THEN "undefined"
    ELSE IF \E rule \in rb.disallow :
                startsWith[urlObj.pathname \o urlObj.search, rule]
    THEN "false"
    ELSE "true"

\* robots.isAllowed(url, userAgent)
isAllowed[rb \in Robots, url \in STRING] ==
    isAllowedUrl[rb, parseUrl[url, NoUrl]]

robotsParsers ==
    [startUrl \in StartUrls \cup ReuseStartUrls, rules \in RobotsRules |->
         robotsParser[startUrl \o "/robots.txt", rules]]

allowedUrls ==
    [rb \in {NoRobots} \cup { robotsParsers[k] : k \in DOMAIN robotsParsers },
     url \in Pages |-> isAllowed[rb, url]]

\* this.robots.isAllowed(url, this.options.userAgent)
allowedByRobots(url) == memo(allowedUrls, <<robots, url>>, isAllowed[robots, url])

\* variant: the robots branch is never taken
robotsBlockedNever(url) == FALSE

\* variant: without a loaded robots.txt every URL counts as blocked
robotsBlockedUnloaded(url) ==
    /\ ~ignoreRestrictions
    /\ allowedByRobots(url) # "true"

\* the condition of the robots branch of processQueue
robotsBlocked(url) ==
    /\ ~ignoreRestrictions
    /\ robots.loaded
    /\ allowedByRobots(url) # "true"

----------------------------------------------------------------------------
\* Fetch outcomes and the retry / skip policy

authRelatedCodes == {401, 403, 407, 429, 451}
skipCodes == {404, 410, 500, 502, 503, 504}

\* response statuses the environment can answer with: success, every status
\* the policy names, and one client error it does not name
Statuses == {200, 418} \cup authRelatedCodes \cup skipCodes

NoStatus == 0

\* messages of transport errors (no response); "Invalid URL" is the one of
\* a request to what is no URL
TransportMessages == { "read ECONNRESET", "Permissions missing", "Invalid URL" }

\* axios.get(url) can settle with outcome: a request to what is no URL is
\* rejected before it is sent, any other request is sent
settles(url, outcome) ==
    (outcome.message = "Invalid URL")
        = (memo(hostnames, url, getDomain[url]) = Null)

OutcomesOf(statuses) == [status : statuses, message : {""}]
                       \cup [status : {NoStatus}, message : TransportMessages]

\* one status of each class the policy tells apart
Outcomes == OutcomesOf({200, 403, 404, 500, 418})

\* the error axios rejects with when validateStatus refuses a response
StatusError(status) ==
    [status |-> status,
     message |-> "Request failed with status code " \o ToString(status)]

\* variant: with ignoreRestrictions only statuses below 400 are accepted
validateStatusBelow400(status) ==
    IF ignoreRestrictions THEN status >= 200 /\ status < 400
    ELSE IF status >= 200 /\ status < 300 THEN TRUE
    ELSE IF ~options.skipUnauthorized THEN status < 500
    ELSE IF status \in {401, 403, 407, 429, 451} THEN FALSE
    ELSE IF status \in {404, 410, 500, 502, 503, 504} THEN FALSE
    ELSE status < 400

\* the validateStatus callback makeRequest hands to axios
validateStatus(status) ==
    IF ignoreRestrictions THEN status >= 200 /\ status < 600
    ELSE IF status >= 200 /\ status < 300 THEN TRUE
    ELSE IF ~options.skipUnauthorized THEN status < 500
    ELSE IF status \in {401, 403, 407, 429, 451} THEN FALSE
    ELSE IF status \in {404, 410, 500, 502, 503, 504} THEN FALSE
    ELSE status < 400

\* the error of an attempt, or NoError when axios.get resolves
NoError == [status |-> NoStatus, message |-> ""]

errorOf(outcome) ==
    IF outcome.status = NoStatus THEN outcome
    ELSE IF validateStatus(outcome.status) THEN NoError
    ELSE StatusError(outcome.status)

BaseDelay == 1000

\* variant: the retry test is retryCount <= retries
retriesOneMore(error, count) ==
    IF ignoreRestrictions THEN count <= options.retries
    ELSE LET noRetryStatuses ==
                 IF options.skipUnauthorized
                 THEN {401, 403, 404, 407, 410, 429, 451, 500, 502, 503, 504}
                 ELSE {404, 410}
         IN  IF error.status # NoStatus /\ error.status \in noRetryStatuses
             THEN FALSE
             ELSE count <= options.retries

\* variant: the no-retry list of skipUnauthorized is the short one
retriesClientErrorsOnly(error, count) ==
    IF ignoreRestrictions THEN count < options.retries
    ELSE IF error.status # NoStatus /\ error.status \in {404, 410} THEN FALSE
    ELSE count < options.retries

\* makeRequest's catch block: TRUE when it sleeps and calls itself again
retries(error, count) ==
    IF ignoreRestrictions THEN count < options.retries
    ELSE LET noRetryStatuses ==
                 IF options.skipUnauthorized
                 THEN {401, 403, 404, 407, 410, 429, 451, 500, 502, 503, 504}
                 ELSE {404, 410}
         IN  IF error.status # NoStatus /\ error.status \in noRetryStatuses
             THEN FALSE
             ELSE count < options.retries

\* variant: the backoff multiplies by retryCount, not retryCount + 1
backoffFromZero(count) == BaseDelay * count

\* the sleep before the retry that follows attempt number count + 1
backoff(count) == BaseDelay * (count + 1)

\* the keyword list of handleCrawlError
authKeywords == { "unauthorized", "forbidden", "access denied",
                  "authentication", "permission" }

\* authKeywords.some(keyword => errorMessage.includes(keyword))
someKeyword[errorMessage \in STRING] ==
    \E keyword \in authKeywords : includes[errorMessage, keyword]

\* const errorMessage = error.message.toLowerCase(), then the test
hasAuthKeyword[message \in STRING] == someKeyword[toLowerCase[message]]

authMessages ==
    [message \in TransportMessages
                     \cup { StatusError(status).message : status \in Statuses } |->
        hasAuthKeyword[message]]

reasons(statusCode) ==
    CASE statusCode = 401 -> "Unauthorized - Authentication required"
      [] statusCode = 403 -> "Forbidden - Access denied"
      [] statusCode = 407 -> "Proxy authentication required"
      [] statusCode = 429 -> "Too many requests - Rate limited"
      [] statusCode = 451 -> "Unavailable for legal reasons"
      [] statusCode = 404 -> "Not found"
      [] statusCode = 410 -> "Gone"
      [] statusCode = 500 -> "Internal server error"
      [] statusCode = 502 -> "Bad gateway"
      [] statusCode = 503 -> "Service unavailable"
      [] statusCode = 504 -> "Gateway timeout"

SkipRecord(url, reason, parent, statusCode) ==
    [url |-> url, reason |-> reason, parent |-> parent, statusCode |-> statusCode]

\* handleCrawlError: the records it pushes to skippedUrls (none when it
\* returns false, one when it returns true)
handleCrawlError(error, url, parent) ==
    IF ignoreRestrictions THEN <<>>
    ELSE IF ~options.skipUnauthorized THEN <<>>
    ELSE LET statusCode == error.status
         IN  IF statusCode # NoStatus /\ statusCode \in authRelatedCodes
             THEN << SkipRecord(url, reasons(statusCode), parent, statusCode) >>
             ELSE IF statusCode # NoStatus /\ statusCode \in skipCodes
             THEN << SkipRecord(url, reasons(statusCode), parent, statusCode) >>
             ELSE IF memo(authMessages, error.message,
                          hasAuthKeyword[error.message])
             THEN << SkipRecord(url, "Authorization issue: " \o error.message,
                                parent, statusCode) >>
             ELSE <<>>

FailureRecord(url, error, parent) ==
    [url |-> url, error |-> error.message, parent |-> parent]

\* the catch of processQueue: the records it pushes to skippedUrls
crawlSkips(error, url, parent) ==
    IF ignoreRestrictions THEN <<>> ELSE handleCrawlError(error, url, parent)

\* variant: the failure is pushed without looking at shouldSkip
crawlFailuresAlways(error, url, parent, shouldSkip) ==
    << FailureRecord(url, error, parent) >>

\* the catch of processQueue: the records it pushes to failedUrls
crawlFailures(error, url, parent, shouldSkip) ==
    IF ~shouldSkip THEN << FailureRecord(url, error, parent) >> ELSE <<>>

----------------------------------------------------------------------------
\* The frontier

WorkItem(url, depth, parent) == [url |-> url, depth |-> depth, parent |-> parent]

isInQueue(q, url) == \E i \in 1..Len(q) : q[i].url = url

isSkipped(url) == \E i \in 1..Len(skippedUrls) : skippedUrls[i].url = url

\* variant: the admission test does not look at the queue
admitsQueued(q, link) ==
    /\ link.url \notin visited
    /\ ~isSkipped(link.url)

\* the admission test of addLinksToQueue for one link, q being the queue so far
admits(q, link) ==
    /\ link.url \notin visited
    /\ ~isInQueue(q, link.url)
    /\ ~isSkipped(link.url)

\* variant: the item goes to the front of the queue (unshift)
pushFront(q, item) == <<item>> \o q

\* this.queue.push(item)
push(q, item) == Append(q, item)

\* addLinksToQueue: the queue after the loop over links
RECURSIVE addLinksToQueue(_, _, _, _)
addLinksToQueue(q, links, depth, parent) ==
    IF links = <<>> THEN q
    ELSE addLinksToQueue(
             IF admits(q, Head(links))
             THEN push(q, WorkItem(Head(links).url, depth, parent))
             ELSE q,
             Tail(links), depth, parent)

----------------------------------------------------------------------------
\* Configurations and initial state

DefaultDelay == 1000

NoOutcome == [status |-> NoStatus, message |-> ""]

\* the local variables of processQueue before its first iteration
NoItem == [url |-> "", depth |-> -1, parent |-> Null]

\* the state after new WebCrawler(options)
InitWith(configurations) ==
    /\ options \in configurations
    /\ visited = {}
    /\ queue = <<>>
    /\ results = <<>>
    /\ failedUrls = <<>>
    /\ skippedUrls = <<>>
    /\ robots = NoRobots
    /\ baseUrl = Null
    /\ baseDomain = Null
    /\ pc = "new"
    /\ cur = NoItem
    /\ retryCount = 0
    /\ lastOutcome = NoOutcome
    /\ fetches = 0
    /\ sleeps = <<>>
    /\ paused = <<>>
    /\ crawlCalls = [u \in {} |-> 0]
    /\ recorded = {}
    /\ dropped = {}
    /\ sessions = 0
    /\ enqueued = {}

Init ==
    InitWith([maxPages : 0..MaxPagesOpt,
              maxDepth : 0..MaxDepthOpt,
              retries : 0..MaxRetriesOpt,
              delay : {DefaultDelay},
              respectRobots : BOOLEAN,
              skipUnauthorized : BOOLEAN,
              ignoreRestrictions : BOOLEAN])

Record(item, list) == [url |-> item.url, depth |-> item.depth, list |-> list]

Calls(u) == IF u \in DOMAIN crawlCalls THEN crawlCalls[u] ELSE 0

----------------------------------------------------------------------------
\* crawl(startUrl).  The position of the call is pc: "new" before the call;
\* "robots" while loadRobotsTxt awaits axios.get; "loop" at the while
\* condition of processQueue; "fetch" while makeRequest awaits axios.get;
\* "backoff" while it awaits the sleep before a retry; "delay" at the end of
\* an iteration that fetched; "access", "mkdir", "write" and "summary" while
\* FileManager awaits fs.access, fs.mkdir, fs.writeFile of the main file and
\* fs.writeFile of the summary; "done" when crawl has returned its result and
\* "rejected" when it has thrown.

\* this.queue.push({ url: startUrl, depth: 0, parent: null })
pushSeed(startUrl) ==
    /\ queue' = push(queue, WorkItem(startUrl, 0, Null))
    /\ enqueued' = enqueued \cup {WorkItem(startUrl, 0, Null)}

\* crawl from its first statement to the await of loadRobotsTxt or, when
\* robots.txt is not asked for, to the call of processQueue
crawl(startUrl) ==
    /\ sessions' = sessions + 1
    /\ baseUrl' = Str(startUrl)
    /\ baseDomain' = memo(hostnames, startUrl, getDomain[startUrl])
    /\ IF options.respectRobots /\ ~ignoreRestrictions
       THEN /\ pc' = "robots"
            /\ UNCHANGED <<queue, enqueued>>
       ELSE /\ pc' = "loop"
            /\ pushSeed(startUrl)
    /\ UNCHANGED <<options, visited, results, failedUrls, skippedUrls, robots,
                   cur, retryCount, lastOutcome, fetches, sleeps, paused,
                   crawlCalls, recorded, dropped>>

\* the first call of crawl on a new instance
Crawl(startUrl) ==
    /\ pc = "new"
    /\ crawl(startUrl)

\* loadRobotsTxt once axios.get has settled: this.robots is the parser of
\* the file, or stays as it is when the request failed
loadRobotsTxt(robotsUrl, rules, loadOk) ==
    IF loadOk
    THEN memo(robotsParsers, <<baseUrl.value, rules>>,
              robotsParser[robotsUrl, rules])
    ELSE robots

\* axios.get of robots.txt settles: loadRobotsTxt returns, and crawl pushes
\* the seed and calls processQueue
LoadRobotsTxt(rules, loadOk) ==
    /\ pc = "robots"
    /\ loadOk => settles(toString[baseUrl] \o "/robots.txt", NoOutcome)
    /\ robots' = loadRobotsTxt(toString[baseUrl] \o "/robots.txt", rules, loadOk)
    /\ pushSeed(baseUrl.value)
    /\ pc' = "loop"
    /\ UNCHANGED <<options, sessions, visited, results, failedUrls,
                   skippedUrls, baseUrl, baseDomain, cur, retryCount,
                   lastOutcome, fetches, sleeps, paused, crawlCalls, recorded,
                   dropped>>

\* variant: the loop stops one page short of maxPages
loopGuardOneShort == Len(queue) > 0 /\ Len(results) < options.maxPages - 1

\* variant: the loop runs until the queue is empty
loopGuardNoCap == Len(queue) > 0

\* the while condition of processQueue
loopGuard == Len(queue) > 0 /\ Len(results) < options.maxPages

\* variant: the depth check drops the items of depth maxDepth as well
tooDeepAtLimit(depth) == depth >= options.maxDepth

\* variant: the depth check lets one more level through
tooDeepByTwo(depth) == depth > options.maxDepth + 1

\* the depth check of processQueue
tooDeep(depth) == depth > options.maxDepth

\* variant: crawlPage does not add the URL to the visited set
markVisitedNot(url) == visited

\* crawlPage's first statement, this.visited.add(url)
markVisited(url) == visited \cup {url}

\* One iteration of processQueue from queue.shift() to the first await: the
\* visited check, the depth check, the robots check, and, when all pass, the
\* entry of crawlPage (visited.add) up to the first axios.get.
Dequeue ==
    /\ pc = "loop"
    /\ loopGuard
    /\ LET item == Head(queue)
       IN  /\ queue' = Tail(queue)
           /\ cur' = item
           /\ retryCount' = 0
           /\ lastOutcome' = NoOutcome
           /\ fetches' = 0
           /\ sleeps' = <<>>
           /\ IF item.url \in visited
              THEN /\ pc' = "loop"
                   /\ UNCHANGED <<visited, skippedUrls, crawlCalls, recorded, dropped>>
              ELSE IF tooDeep(item.depth)
              THEN /\ pc' = "loop"
                   /\ dropped' = dropped \cup {item}
                   /\ UNCHANGED <<visited, skippedUrls, crawlCalls, recorded>>
              ELSE IF robotsBlocked(item.url)
              THEN /\ pc' = "loop"
                   /\ skippedUrls' = Append(skippedUrls,
                          SkipRecord(item.url, "robots.txt blocked",
                                     item.parent, NoStatus))
                   /\ recorded' = recorded \cup {Record(item, "skips")}
                   /\ UNCHANGED <<visited, crawlCalls, dropped>>
              ELSE /\ pc' = "fetch"
                   /\ visited' = markVisited(item.url)
                   /\ crawlCalls' = [u \in DOMAIN crawlCalls \cup {item.url} |->
                                        IF u = item.url THEN Calls(u) + 1
                                        ELSE crawlCalls[u]]
                   /\ UNCHANGED <<skippedUrls, recorded, dropped>>
    /\ UNCHANGED <<options, sessions, enqueued, results, failedUrls, robots, baseUrl, baseDomain,
                   paused>>

\* axios.get resolves: crawlPage extracts the page and its links,
\* processQueue pushes the page and enqueues the links.
FetchOk(outcome, doc) ==
    /\ pc = "fetch"
    /\ settles(cur.url, outcome)
    /\ errorOf(outcome) = NoError
    /\ outcome.status # NoStatus
    /\ LET pageData == crawlPage(doc, cur.url, cur.depth, cur.parent)
       IN  /\ results' = Append(results, pageData)
           /\ queue' = addLinksToQueue(queue, pageData.links, cur.depth + 1,
                                       Str(cur.url))
           /\ enqueued' = enqueued \cup
                  { queue'[n] : n \in (Len(queue) + 1)..Len(queue') }
    /\ recorded' = recorded \cup {Record(cur, "pages")}
    /\ lastOutcome' = outcome
    /\ fetches' = fetches + 1
    /\ paused' = <<>>
    /\ pc' = "delay"
    /\ UNCHANGED <<options, sessions, visited, failedUrls, skippedUrls, robots, baseUrl,
                   baseDomain, cur, retryCount, sleeps, crawlCalls, dropped>>

\* axios.get rejects and the catch of makeRequest decides to retry: it
\* awaits the backoff sleep
FetchRetry(outcome) ==
    /\ pc = "fetch"
    /\ settles(cur.url, outcome)
    /\ errorOf(outcome) # NoError
    /\ retries(errorOf(outcome), retryCount)
    /\ sleeps' = Append(sleeps, backoff(retryCount))
    /\ lastOutcome' = outcome
    /\ fetches' = fetches + 1
    /\ pc' = "backoff"
    /\ UNCHANGED <<options, sessions, enqueued, visited, queue, results, failedUrls, skippedUrls,
                   robots, baseUrl, baseDomain, cur, retryCount, paused,
                   crawlCalls, recorded, dropped>>

\* the backoff sleep is over: makeRequest(url, retryCount + 1) issues the
\* next axios.get
Retry ==
    /\ pc = "backoff"
    /\ retryCount' = retryCount + 1
    /\ pc' = "fetch"
    /\ UNCHANGED <<options, sessions, enqueued, visited, queue, results, failedUrls, skippedUrls,
                   robots, baseUrl, baseDomain, cur, lastOutcome, fetches,
                   sleeps, paused, crawlCalls, recorded, dropped>>

\* where processQueue is after its catch block: at the delay that ends the
\* iteration
caught == "delay"

\* axios.get rejects and makeRequest rethrows: the catch of processQueue
\* records the URL as skipped (handleCrawlError) or as failed
FetchThrow(outcome) ==
    /\ pc = "fetch"
    /\ settles(cur.url, outcome)
    /\ errorOf(outcome) # NoError
    /\ ~retries(errorOf(outcome), retryCount)
    /\ LET error == errorOf(outcome)
           skips == crawlSkips(error, cur.url, cur.parent)
           shouldSkip == skips # <<>>
       IN  /\ skippedUrls' = skippedUrls \o skips
           /\ failedUrls' = failedUrls \o
                  crawlFailures(error, cur.url, cur.parent, shouldSkip)
           /\ recorded' = recorded \cup
                  {Record(cur, IF shouldSkip THEN "skips" ELSE "failures")}
    /\ lastOutcome' = outcome
    /\ fetches' = fetches + 1
    /\ paused' = <<>>
    /\ pc' = caught
    /\ UNCHANGED <<options, sessions, enqueued, visited, queue, results, robots, baseUrl,
                   baseDomain, cur, retryCount, sleeps, crawlCalls, dropped>>

\* variant: the sleep is inside the try block, so an iteration that ends in
\* the catch does not sleep
DelayAfterPagesOnly ==
    /\ pc = "delay"
    /\ paused' = IF options.delay > 0 /\ errorOf(lastOutcome) = NoError
                 THEN Append(paused, options.delay) ELSE paused
    /\ retryCount' = 0
    /\ lastOutcome' = NoOutcome
    /\ fetches' = 0
    /\ sleeps' = <<>>
    /\ pc' = "loop"
    /\ UNCHANGED <<options, sessions, enqueued, visited, queue, results, failedUrls,
                   skippedUrls, robots, baseUrl, baseDomain, cur, crawlCalls,
                   recorded, dropped>>

\* the sleep between requests that ends an iteration that fetched; the
\* locals of the iteration (makeRequest's frame) die with it
Delay ==
    /\ pc = "delay"
    /\ paused' = IF options.delay > 0 THEN Append(paused, options.delay) ELSE paused
    /\ retryCount' = 0
    /\ lastOutcome' = NoOutcome
    /\ fetches' = 0
    /\ sleeps' = <<>>
    /\ pc' = "loop"
    /\ UNCHANGED <<options, sessions, enqueued, visited, queue, results, failedUrls, skippedUrls,
                   robots, baseUrl, baseDomain, cur, crawlCalls, recorded,
                   dropped>>

\* The while condition fails: processQueue returns, crawl calls saveResults,
\* which builds crawlData with pages: this.results and calls
\* FileManager.saveCrawlData; ensureDirectory awaits fs.access.
SaveResults ==
    /\ pc = "loop"
    /\ ~loopGuard
    /\ pc' = "access"
    /\ UNCHANGED <<options, sessions, enqueued, visited, queue, results, failedUrls, skippedUrls,
                   robots, baseUrl, baseDomain, cur, retryCount, lastOutcome,
                   fetches, sleeps, paused, crawlCalls, recorded, dropped>>

\* saveCrawlData once ensureDirectory has returned: domain.replace throws
\* a TypeError for a domain of null; otherwise fs.writeFile of the main
\* file is awaited
directoryEnsured == IF baseDomain = Null THEN "rejected" ELSE "write"

\* fs.access settles: the directory is there, or the catch of
\* ensureDirectory awaits fs.mkdir
EnsureDirectory(found) ==
    /\ pc = "access"
    /\ pc' = IF found THEN directoryEnsured ELSE "mkdir"
    /\ UNCHANGED <<options, sessions, enqueued, visited, queue, results, failedUrls, skippedUrls,
                   robots, baseUrl, baseDomain, cur, retryCount, lastOutcome,
                   fetches, sleeps, paused, crawlCalls, recorded, dropped>>

\* fs.mkdir settles; its error leaves crawl through every await above it
MakeDirectory(made) ==
    /\ pc = "mkdir"
    /\ pc' = IF made THEN directoryEnsured ELSE "rejected"
    /\ UNCHANGED <<options, sessions, enqueued, visited, queue, results, failedUrls, skippedUrls,
                   robots, baseUrl, baseDomain, cur, retryCount, lastOutcome,
                   fetches, sleeps, paused, crawlCalls, recorded, dropped>>

\* fs.writeFile of the main file settles.  saveSummary then picks the top
\* pages: crawlData.pages is this.results itself, and sort sorts it in
\* place; fs.writeFile of the summary is awaited.
SaveCrawlData(written) ==
    /\ pc = "write"
    /\ IF written
       THEN /\ results' = sortByWordCount(results)
            /\ pc' = "summary"
       ELSE /\ pc' = "rejected"
            /\ UNCHANGED results
    /\ UNCHANGED <<options, sessions, enqueued, visited, queue, failedUrls, skippedUrls,
                   robots, baseUrl, baseDomain, cur, retryCount, lastOutcome,
                   fetches, sleeps, paused, crawlCalls, recorded, dropped>>

\* fs.writeFile of the summary settles: saveResults returns the file name
\* and crawl returns its result, or crawl throws the error
SaveSummary(written) ==
    /\ pc = "summary"
    /\ pc' = IF written THEN "done" ELSE "rejected"
    /\ UNCHANGED <<options, sessions, enqueued, visited, queue, results, failedUrls, skippedUrls,
                   robots, baseUrl, baseDomain, cur, retryCount, lastOutcome,
                   fetches, sleeps, paused, crawlCalls, recorded, dropped>>

Next ==
    \/ \E s \in StartUrls : Crawl(s)
    \/ \E r \in RobotsRules, ok \in BOOLEAN : LoadRobotsTxt(r, ok)
    \/ Dequeue
    \/ \E o \in Outcomes, h \in Documents : FetchOk(o, h)
    \/ \E o \in Outcomes : FetchRetry(o)
    \/ Retry
    \/ \E o \in Outcomes : FetchThrow(o)
    \/ Delay
    \/ SaveResults
    \/ \E found \in BOOLEAN : EnsureDirectory(found)
    \/ \E made \in BOOLEAN : MakeDirectory(made)
    \/ \E written \in BOOLEAN : SaveCrawlData(written)
    \/ \E written \in BOOLEAN : SaveSummary(written)

Spec == Init /\ [][Next]_vars

\* A crawl call runs on the event loop of one process: every await of it
\* (axios.get with its timeout, sleep) settles, and the code after it runs.
\* The site is one whose pages link to each other in a cycle.
NextFair ==
    \/ \E s \in StartUrls : Crawl(s)
    \/ \E r \in RobotsRules, ok \in BOOLEAN : LoadRobotsTxt(r, ok)
    \/ Dequeue
    \/ \E o \in OutcomesOf({200, 404}), h \in FairDocuments : FetchOk(o, h)
    \/ \E o \in OutcomesOf({200, 404}) : FetchRetry(o)
    \/ Retry
    \/ \E o \in OutcomesOf({200, 404}) : FetchThrow(o)
    \/ Delay
    \/ SaveResults
    \/ \E found \in BOOLEAN : EnsureDirectory(found)
    \/ \E made \in BOOLEAN : MakeDirectory(made)
    \/ \E written \in BOOLEAN : SaveCrawlData(written)
    \/ \E written \in BOOLEAN : SaveSummary(written)

SpecFair == Init /\ [][NextFair]_vars /\ WF_vars(NextFair)

\* The same, with a file system that does what saveResults asks of it: the
\* output directory is there or is made, and both files are written.
NextSaved ==
    \/ \E s \in StartUrls : Crawl(s)
    \/ \E r \in RobotsRules, ok \in BOOLEAN : LoadRobotsTxt(r, ok)
    \/ Dequeue
    \/ \E o \in OutcomesOf({200, 404}), h \in FairDocuments : FetchOk(o, h)
    \/ \E o \in OutcomesOf({200, 404}) : FetchRetry(o)
    \/ Retry
    \/ \E o \in OutcomesOf({200, 404}) : FetchThrow(o)
    \/ Delay
    \/ SaveResults
    \/ \E found \in BOOLEAN : EnsureDirectory(found)
    \/ MakeDirectory(TRUE)
    \/ SaveCrawlData(TRUE)
    \/ SaveSummary(TRUE)

SpecSaved == Init /\ [][NextSaved]_vars /\ WF_vars(NextSaved)

\* The same crawler against a server that can answer with every status the
\* policy names, on a site of two documents.
MaxPolicyRetries == 3

InitPolicy ==
    InitWith([maxPages : 0..MaxPagesOpt,
              maxDepth : 0..MaxDepthOpt,
              retries : 0..MaxPolicyRetries,
              delay : {DefaultDelay},
              respectRobots : BOOLEAN,
              skipUnauthorized : BOOLEAN,
              ignoreRestrictions : BOOLEAN])

NextPolicy ==
    \/ \E s \in StartUrls : Crawl(s)
    \/ \E r \in RobotsRules, ok \in BOOLEAN : LoadRobotsTxt(r, ok)
    \/ Dequeue
    \/ \E o \in OutcomesOf(Statuses), h \in PolicyDocuments : FetchOk(o, h)
    \/ \E o \in OutcomesOf(Statuses) : FetchRetry(o)
    \/ Retry
    \/ \E o \in OutcomesOf(Statuses) : FetchThrow(o)
    \/ Delay
    \/ SaveResults
    \/ \E found \in BOOLEAN : EnsureDirectory(found)
    \/ \E made \in BOOLEAN : MakeDirectory(made)
    \/ \E written \in BOOLEAN : SaveCrawlData(written)
    \/ \E written \in BOOLEAN : SaveSummary(written)

SpecPolicy == InitPolicy /\ [][NextPolicy]_vars

\* The same crawler with room for four pages on a site three levels deep:
\* the seed links to a and b, and a page can link to c.
MaxBfsPages == 4

InitBfs ==
    InitWith([maxPages : 0..MaxBfsPages,
              maxDepth : 0..MaxDepthOpt,
              retries : {0, 1},
              delay : {0, DefaultDelay},
              respectRobots : BOOLEAN,
              skipUnauthorized : BOOLEAN,
              ignoreRestrictions : BOOLEAN])

NextBfs ==
    \/ \E s \in StartUrls : Crawl(s)
    \/ \E r \in RobotsRules, ok \in BOOLEAN : LoadRobotsTxt(r, ok)
    \/ Dequeue
    \/ \E o \in Outcomes, h \in BfsDocuments : FetchOk(o, h)
    \/ \E o \in Outcomes : FetchRetry(o)
    \/ Retry
    \/ \E o \in Outcomes : FetchThrow(o)
    \/ Delay
    \/ SaveResults
    \/ \E found \in BOOLEAN : EnsureDirectory(found)
    \/ \E made \in BOOLEAN : MakeDirectory(made)
    \/ \E written \in BOOLEAN : SaveCrawlData(written)
    \/ \E written \in BOOLEAN : SaveSummary(written)

SpecBfs == InitBfs /\ [][NextBfs]_vars

\* The same crawler used for a second session: crawl is called again on the
\* instance once the first call has returned.
MaxSessions == 2

InitReuse ==
    InitWith([maxPages : 0..MaxPagesOpt,
              maxDepth : {0, 1},
              retries : {0, 1},
              delay : {DefaultDelay},
              respectRobots : BOOLEAN,
              skipUnauthorized : {FALSE},
              ignoreRestrictions : BOOLEAN])

CrawlAgain(startUrl) ==
    /\ pc = "done"
    /\ sessions < MaxSessions
    /\ crawl(startUrl)

NextReuse ==
    \/ \E s \in ReuseStartUrls : Crawl(s)
    \/ \E s \in ReuseStartUrls : CrawlAgain(s)
    \/ \E r \in RobotsRules, ok \in BOOLEAN : LoadRobotsTxt(r, ok)
    \/ Dequeue
    \/ \E o \in OutcomesOf({200, 404}), h \in PolicyDocuments : FetchOk(o, h)
    \/ \E o \in OutcomesOf({200, 404}) : FetchRetry(o)
    \/ Retry
    \/ \E o \in OutcomesOf({200, 404}) : FetchThrow(o)
    \/ Delay
    \/ SaveResults
    \/ \E found \in BOOLEAN : EnsureDirectory(found)
    \/ \E made \in BOOLEAN : MakeDirectory(made)
    \/ \E written \in BOOLEAN : SaveCrawlData(written)
    \/ \E written \in BOOLEAN : SaveSummary(written)

SpecReuse == InitReuse /\ [][NextReuse]_vars

----------------------------------------------------------------------------
\* Properties

Urls(list) == { list[i].url : i \in 1..Len(list) }

Last(seq) == seq[Len(seq)]

classifiedCodes == authRelatedCodes \cup skipCodes

\* the positions of crawl inside crawlPage and up to the end of the
\* iteration that called it
fetching == {"fetch", "backoff", "delay"}

\* the positions of crawl once processQueue has returned
afterLoop == {"access", "mkdir", "write", "summary", "done", "rejected"}

\* the positions of crawl at which saveSummary has not been called: results
\* is as the appends of processQueue left it
beforeSummary == {"new", "robots", "loop", "access", "mkdir", "write"} \cup fetching

\* C1: in every reachable state no URL is in more than one of the lists
\* results, skippedUrls and failedUrls, whatever the mode flags and the fetch
\* outcomes are.
C1_ListsDisjoint ==
    /\ Urls(results) \cap Urls(skippedUrls) = {}
    /\ Urls(results) \cap Urls(failedUrls) = {}
    /\ Urls(skippedUrls) \cap Urls(failedUrls) = {}

\* a finished session with a page, a skip and a failure
C1_Witness ==
    /\ pc = "done"
    /\ results # <<>>
    /\ skippedUrls # <<>>
    /\ failedUrls # <<>>

\* C2: the number of page records never exceeds maxPages.
C2_PageCap == Len(results) <= options.maxPages

\* the cap stopped the loop while work was still queued
C2_Witness ==
    /\ pc = "done"
    /\ options.maxPages >= 1
    /\ Len(results) = options.maxPages
    /\ queue # <<>>

\* C3: crawlPage is invoked at most once for any URL of a session.
C3_AtMostOnce == \A u \in DOMAIN crawlCalls : crawlCalls[u] <= 1

\* a page that links back to the first page crawled and to a URL that failed
C3_Witness ==
    /\ pc = "loop"
    /\ \E j \in 2..Len(results) :
           /\ \E k \in 1..Len(results[j].links) :
                  results[j].links[k].url = results[1].url
           /\ \E k \in 1..Len(results[j].links) :
                  results[j].links[k].url \in Urls(failedUrls)

\* C4: every URL that is enqueued, fetched or recorded as a page has the
\* domain of the seed; a link with isInternal = false is never queued.
C4_SameDomainOnly ==
    /\ \A i \in 1..Len(queue) : getDomain[queue[i].url] = baseDomain
    /\ \A u \in visited : getDomain[u] = baseDomain
    /\ \A i \in 1..Len(results) : getDomain[results[i].url] = baseDomain

\* C5: every record of results, skippedUrls and failedUrls belongs to a work
\* item of depth <= maxDepth; a work item of depth > maxDepth is dropped at
\* dequeue, is never fetched and is in no output list.
C5_DepthBound ==
    /\ \A r \in recorded : r.depth <= options.maxDepth
    /\ \A i \in 1..Len(results) : results[i].depth <= options.maxDepth
    /\ Urls(results) \cup Urls(skippedUrls) \cup Urls(failedUrls)
           = { r.url : r \in recorded }
    /\ \A d \in dropped :
           /\ d.depth > options.maxDepth
           /\ Calls(d.url) = 0
           /\ d.url \notin Urls(results) \cup Urls(skippedUrls) \cup Urls(failedUrls)

\* a link found on a page of depth maxDepth was queued, dequeued and dropped
C5_Witness ==
    /\ pc = "done"
    /\ \E d \in dropped : \E i \in 1..Len(results) :
           /\ Str(results[i].url) = d.parent
           /\ results[i].depth = options.maxDepth
           /\ d.depth = options.maxDepth + 1

\* C6: with ignoreRestrictions set the skip list is empty in every reachable
\* state, whatever respectRobots, skipUnauthorized and the outcomes are.
C6_NoSkipsWhenIgnoring == options.ignoreRestrictions => skippedUrls = <<>>

\* all three flags set, and a fetch ended in the transport error that
\* skipUnauthorized alone would have recorded as a skip
C6_Witness ==
    /\ options.ignoreRestrictions
    /\ options.respectRobots
    /\ options.skipUnauthorized
    /\ pc = "delay"
    /\ lastOutcome = [status |-> NoStatus, message |-> "Permissions missing"]
    /\ failedUrls # <<>>

\* the robots reason of a skip record
robotsReason == "robots.txt blocked"

\* C7: with respectRobots set, ignoreRestrictions clear and robots.txt
\* loaded, a URL the directives disallow is never fetched, and a dequeued work
\* item for it (depth <= maxDepth) is recorded as skipped with the reason
\* "robots.txt blocked" without any fetch.
C7_RobotsBeforeFetch ==
    (options.respectRobots /\ ~options.ignoreRestrictions /\ robots.loaded) =>
        /\ \A u \in DOMAIN crawlCalls : allowedByRobots(u) # "false"
        /\ \A u \in visited : allowedByRobots(u) # "false"
        /\ (/\ cur # NoItem
            /\ allowedByRobots(cur.url) = "false"
            /\ cur.depth <= options.maxDepth)
           => /\ pc \notin fetching
              /\ fetches = 0
              /\ skippedUrls # <<>>
              /\ Last(skippedUrls) =
                     SkipRecord(cur.url, robotsReason, cur.parent, NoStatus)

\* the seed was fetched and a disallowed page found on it was skipped
C7_Witness ==
    /\ options.respectRobots
    /\ ~options.ignoreRestrictions
    /\ robots.loaded
    /\ results # <<>>
    /\ allowedByRobots(PageA) = "false"
    /\ cur.url = PageA
    /\ \E i \in 1..Len(skippedUrls) :
           skippedUrls[i].url = PageA /\ skippedUrls[i].reason = robotsReason

\* C8: with skipUnauthorized set and ignoreRestrictions clear, a fetch that
\* returns a status of {401, 403, 407, 429, 451, 404, 410, 500, 502, 503, 504}
\* ends the URL at once: no retry and no backoff sleep follow it (so a first
\* fetch with such a status is the only one), the URL is appended to the skip
\* list with that statusCode and is in neither failedUrls nor results.
C8_SkipAtOnce ==
    (/\ options.skipUnauthorized
     /\ ~options.ignoreRestrictions
     /\ lastOutcome.status \in classifiedCodes) =>
        /\ pc = "delay"
        /\ retryCount = fetches - 1
        /\ Len(sleeps) = fetches - 1
        /\ skippedUrls # <<>>
        /\ Last(skippedUrls) =
               SkipRecord(cur.url, reasons(lastOutcome.status), cur.parent,
                          lastOutcome.status)
        /\ cur.url \notin Urls(failedUrls)
        /\ cur.url \notin Urls(results)

\* a first fetch answered 503 with retries left, and was skipped
C8_Witness ==
    /\ options.skipUnauthorized
    /\ ~options.ignoreRestrictions
    /\ options.retries >= 1
    /\ pc = "delay"
    /\ lastOutcome.status = 503
    /\ fetches = 1
    /\ sleeps = <<>>

\* C9: with skipUnauthorized and ignoreRestrictions clear, a fetch answered
\* with status 500 is retried while retries are left, after a sleep that is
\* k * BaseDelay before retry k, and the 500 that ends the URL is its attempt
\* number retries + 1, after retries sleeps; the URL is then in failedUrls
\* and in no other list.
C9_RetryThenFail ==
    (/\ ~options.skipUnauthorized
     /\ ~options.ignoreRestrictions
     /\ lastOutcome.status = 500) =>
        /\ sleeps = [k \in 1..Len(sleeps) |-> k * BaseDelay]
        /\ pc = "backoff" =>
               /\ Len(sleeps) = retryCount + 1
               /\ fetches = retryCount + 1
               /\ retryCount < options.retries
        /\ pc = "fetch" =>
               /\ Len(sleeps) = retryCount
               /\ fetches = retryCount
               /\ retryCount <= options.retries
        /\ pc = "delay" =>
               /\ Len(sleeps) = options.retries
               /\ retryCount = options.retries
               /\ fetches = options.retries + 1
               /\ failedUrls # <<>>
               /\ Last(failedUrls) =
                      FailureRecord(cur.url, StatusError(500), cur.parent)
               /\ cur.url \notin Urls(skippedUrls)
               /\ cur.url \notin Urls(results)

\* three retries with the delays 1000, 2000, 3000, then the failure
C9_Witness ==
    /\ ~options.skipUnauthorized
    /\ ~options.ignoreRestrictions
    /\ options.retries = 3
    /\ pc = "delay"
    /\ lastOutcome.status = 500
    /\ fetches = 4
    /\ sleeps = <<BaseDelay, 2 * BaseDelay, 3 * BaseDelay>>
    /\ cur.url \in Urls(failedUrls)

\* C10: with skipUnauthorized and ignoreRestrictions clear, a response with
\* an authorization-class or terminal-class status is an error: it never
\* yields a page record, and the one that ends the URL leaves it in
\* failedUrls.
C10_ClassifiedStatusIsError ==
    (/\ ~options.skipUnauthorized
     /\ ~options.ignoreRestrictions
     /\ lastOutcome.status \in classifiedCodes
     /\ pc = "delay") =>
        /\ cur.url \notin Urls(results)
        /\ cur.url \in Urls(failedUrls)

\* C11: with ignoreRestrictions set, a URL whose attempts all end in a
\* transport exception or in a response with a status in 400..599 is retried
\* until the budget is spent and is then in failedUrls, never a skip and
\* never a page.
C11_IgnoreErrorsFail ==
    (/\ options.ignoreRestrictions
     /\ pc = "delay"
     /\ lastOutcome # NoOutcome
     /\ \/ lastOutcome.status = NoStatus
        \/ lastOutcome.status \in 400..599) =>
        /\ retryCount = options.retries
        /\ cur.url \in Urls(failedUrls)
        /\ cur.url \notin Urls(skippedUrls)
        /\ cur.url \notin Urls(results)

\* C11: with ignoreRestrictions set, an attempt that ends in a transport
\* exception is retried while retries are left, the sleep before retry k is
\* k * BaseDelay, and the exception that ends the URL is its attempt number
\* retries + 1, after which the URL is in failedUrls and in no other list; a
\* response with a status in 400..599 is accepted at once, without a retry,
\* and the URL becomes a page, neither a failure nor a skip.
C11_IgnoreTransportFails ==
    (options.ignoreRestrictions /\ lastOutcome # NoOutcome) =>
        /\ lastOutcome.status = NoStatus =>
               /\ sleeps = [k \in 1..Len(sleeps) |-> k * BaseDelay]
               /\ pc = "backoff" =>
                      /\ Len(sleeps) = retryCount + 1
                      /\ fetches = retryCount + 1
                      /\ retryCount < options.retries
               /\ pc = "fetch" =>
                      /\ Len(sleeps) = retryCount
                      /\ fetches = retryCount
                      /\ retryCount <= options.retries
               /\ pc = "delay" =>
                      /\ Len(sleeps) = options.retries
                      /\ retryCount = options.retries
                      /\ fetches = options.retries + 1
                      /\ failedUrls # <<>>
                      /\ Last(failedUrls) =
                             FailureRecord(cur.url, lastOutcome, cur.parent)
                      /\ cur.url \notin Urls(skippedUrls)
                      /\ cur.url \notin Urls(results)
        /\ lastOutcome.status \in 400..599 =>
               /\ pc = "delay"
               /\ fetches = retryCount + 1
               /\ results # <<>>
               /\ Last(results).url = cur.url
               /\ cur.url \notin Urls(failedUrls)
               /\ cur.url \notin Urls(skippedUrls)

\* two retries of a transport exception, then the failure, in a session
\* that also has a page
C11_Witness ==
    /\ options.ignoreRestrictions
    /\ options.retries = 2
    /\ pc = "delay"
    /\ lastOutcome.status = NoStatus
    /\ lastOutcome # NoOutcome
    /\ fetches = 3
    /\ sleeps = <<BaseDelay, 2 * BaseDelay>>
    /\ cur.url \in Urls(failedUrls)
    /\ results # <<>>

\* a step of the queue: nothing, the removal of its head, which becomes the
\* current item, or additions behind the items it holds
FifoStep ==
    \/ queue' = queue
    \/ queue # <<>> /\ queue' = Tail(queue) /\ cur' = Head(queue)
    \/ Len(queue') > Len(queue) /\ SubSeq(queue', 1, Len(queue)) = queue

\* the place of url among the links of a page
linkIndex(page, url) ==
    CHOOSE n \in 1..Len(page.links) : page.links[n].url = url

\* C12: the queue is first in, first out: every step leaves it alone, takes
\* its head as the current item, or appends behind the items it holds; so
\* the items wait in order of depth, and until saveSummary is called the
\* pages stand in results in order of depth, the children of one page in
\* the order of its links (seed, a, b, c for a seed linking to a and b and
\* a linking to c).
C12_FifoBreadthFirst ==
    /\ [][FifoStep]_vars
    /\ [](\A i, j \in 1..Len(queue) : i < j => queue[i].depth <= queue[j].depth)
    /\ [](pc \in beforeSummary =>
            \A i, j \in 1..Len(results) :
                i < j =>
                    /\ results[i].depth <= results[j].depth
                    /\ results[i].parent = results[j].parent =>
                           \A h \in 1..Len(results) :
                               Str(results[h].url) = results[i].parent =>
                                   linkIndex(results[h], results[i].url)
                                       < linkIndex(results[h], results[j].url))

\* the four pages of the example, completed in the order seed, a, b, c
C12_Witness ==
    /\ pc = "delay"
    /\ [i \in 1..Len(results) |-> results[i].url] = <<SeedUrl, PageA, PageB, PageC>>
    /\ [i \in 1..Len(results) |-> results[i].parent]
           = <<Null, Str(SeedUrl), Str(SeedUrl), Str(PageA)>>
    /\ [i \in 1..Len(results) |-> results[i].depth] = <<0, 1, 1, 2>>

\* C13: every crawl call leaves the loop of processQueue, and when it has,
\* the queue is empty or results holds maxPages pages or more.
C13_Terminates ==
    /\ <>(pc \in afterLoop)
    /\ [](pc \in afterLoop =>
            queue = <<>> \/ Len(results) >= options.maxPages)

\* a session that ended with an empty queue below the cap, after retries
\* that ended in a failure
C13_Witness ==
    /\ pc = "access"
    /\ queue = <<>>
    /\ Len(results) < options.maxPages
    /\ results # <<>>
    /\ failedUrls # <<>>
    /\ options.retries = MaxRetriesOpt

\* processQueue runs and has recorded a skip or a failure
errorInLoop ==
    /\ pc \in {"loop"} \cup fetching
    /\ skippedUrls # <<>> \/ failedUrls # <<>>

\* C14: a skip or a failure does not end the session: every session that
\* has recorded one goes on to saveResults once the loop ends, and crawl
\* returns a result.
C14_AlwaysReturns == errorInLoop ~> (pc = "done")

\* the URLs the crawler knows: visited, queued or skipped
knownUrls == visited \cup Urls(queue) \cup Urls(skippedUrls)

\* C15: in every reachable state addLinksToQueue, offered a link whose URL is
\* visited, queued or in the skip list, once or twice in one call, returns
\* the queue as it is; and no URL is in the queue twice.
C15_EnqueueIdempotent ==
    /\ \A u \in knownUrls :
           /\ addLinksToQueue(queue, << [url |-> u, isInternal |-> TRUE] >>,
                              cur.depth + 1, Str(cur.url)) = queue
           /\ addLinksToQueue(queue, << [url |-> u, isInternal |-> FALSE],
                                        [url |-> u, isInternal |-> TRUE] >>,
                              cur.depth + 1, Str(cur.url)) = queue
    /\ \A i, j \in 1..Len(queue) : queue[i].url = queue[j].url => i = j

\* a page was recorded whose links held a URL queued by an earlier page and
\* a URL already visited, and a robots skip is on the list
C15_Witness ==
    /\ pc = "delay"
    /\ results # <<>>
    /\ Last(results).url = cur.url
    /\ \E n \in 1..Len(Last(results).links), i \in 1..Len(queue) :
           /\ queue[i].url = Last(results).links[n].url
           /\ queue[i].parent # Str(cur.url)
    /\ \E n \in 1..Len(Last(results).links) :
           Last(results).links[n].url \in visited
    /\ skippedUrls # <<>>

\* C16: every work item in the queue has a depth of at most maxDepth.
C16_QueueDepthBound ==
    \A i \in 1..Len(queue) : queue[i].depth <= options.maxDepth

\* C16: addLinksToQueue queues the links of a page at the depth of the page
\* plus one without comparing it with maxDepth, so a queued item has a depth
\* of at most maxDepth + 1; the limit is applied when the item is taken from
\* the queue: an item that is fetched has a depth of at most maxDepth, and
\* one of depth maxDepth + 1 is dropped.
C16_DepthAtDequeue ==
    /\ \A i \in 1..Len(queue) : queue[i].depth <= options.maxDepth + 1
    /\ pc \in fetching => cur.depth <= options.maxDepth
    /\ \A d \in dropped : d.depth = options.maxDepth + 1

\* an item of depth maxDepth + 1 waits in the queue behind one that was
\* dropped for its depth
C16_Witness ==
    /\ \E i \in 1..Len(queue) : queue[i].depth = options.maxDepth + 1
    /\ dropped # {}
    /\ results # <<>>

\* C17: once processQueue runs, a step that ends with maxPages pages or more
\* in results adds nothing to the queue; the step that appends the page
\* reaching the cap is one of them.
C17_NoGrowthAtCap ==
    [][(pc \notin {"new", "robots"} /\ Len(results') >= options.maxPages) =>
           Len(queue') <= Len(queue)]_vars

\* C17: once processQueue runs, a step that starts with maxPages pages or
\* more in results adds nothing to the queue and no page to results: the
\* queue can grow in the step that appends the page reaching the cap, by
\* the admitted links of that page, and never after it.
C17_NoGrowthAfterCap ==
    [][(pc \notin {"new", "robots"} /\ Len(results) >= options.maxPages) =>
           /\ Len(queue') <= Len(queue)
           /\ Len(results') = Len(results)]_vars

\* the page that reached the cap has been appended and its links are in
\* the queue
C17_Witness ==
    /\ pc = "delay"
    /\ options.maxPages >= 1
    /\ Len(results) = options.maxPages
    /\ Last(results).url = cur.url
    /\ \E i \in 1..Len(queue) : queue[i].parent = Str(cur.url)

\* the skip records pushed by the robots check of processQueue
robotsSkipped ==
    { skippedUrls[i].url : i \in { n \in 1..Len(skippedUrls) :
                                     skippedUrls[n].reason = "robots.txt blocked" } }

\* C18: the work item last taken from the queue is in the visited set,
\* whatever was done with it.
C18_VisitedAtDequeue ==
    cur # NoItem => cur.url \in visited

\* C18: a work item taken from the queue is added to the visited set by
\* crawlPage, after the depth check and the robots check and before its first
\* fetch: an item being fetched or just fetched is visited, and so is every
\* URL crawlPage was called for, while a URL dropped for its depth or skipped
\* by robots is visited only if crawlPage was called for it.
C18_VisitedAtCrawlPage ==
    /\ pc \in fetching => cur.url \in visited
    /\ \A u \in visited : Calls(u) = 1
    /\ \A u \in DOMAIN crawlCalls : u \in visited
    /\ \A u \in robotsSkipped : u \notin visited
    /\ \A d \in dropped : d.url \in visited => Calls(d.url) = 1

\* after a page, one work item was dropped for its depth and one skipped by
\* robots, and neither URL is visited
C18_Witness ==
    /\ results # <<>>
    /\ \E d \in dropped : d.url \notin visited
    /\ \E u \in robotsSkipped : u \notin visited

\* C19: every work item in the queue carries a normalized URL, and no two
\* URLs handed to crawlPage normalize to the same URL.
C19_QueueNormalized ==
    /\ \A i \in 1..Len(queue) : normalizeUrl[queue[i].url] = queue[i].url
    /\ \A u, v \in visited : normalizeUrl[u] = normalizeUrl[v] => u = v

\* C20: every call of crawl starts the loop of its session with an empty
\* visited set, no pages, no skips, no failures and a queue that holds the
\* seed alone.
C20_FreshSession ==
    [][(pc # "loop" /\ pc' = "loop" /\ pc \notin fetching) =>
           /\ visited' = {}
           /\ results' = <<>>
           /\ failedUrls' = <<>>
           /\ skippedUrls' = <<>>
           /\ queue' = << WorkItem(baseUrl'.value, 0, Null) >>]_vars

\* C21: results is only ever extended at its end: every step leaves the
\* pages it holds as they are and where they are, the steps of saveResults
\* included, so the sequence crawl returns is in the order of the dequeues.
C21_ResultsAppendOnly ==
    [][\/ results' = results
       \/ /\ Len(results') = Len(results) + 1
          /\ SubSeq(results', 1, Len(results)) = results
          /\ Last(results').url = cur.url]_vars

\* an attempt that ended without a response and with the message
\* "Permissions missing"
keywordError == [status |-> NoStatus, message |-> "Permissions missing"]

\* C22: with skipUnauthorized set and ignoreRestrictions clear, an attempt
\* that ends in a transport error whose message holds a keyword ends the URL
\* at once: the URL is then in skippedUrls and is not fetched again.
C22_KeywordSkipAtOnce ==
    (/\ options.skipUnauthorized
     /\ ~options.ignoreRestrictions
     /\ lastOutcome = keywordError) =>
        /\ pc = "delay"
        /\ cur.url \in Urls(skippedUrls)
        /\ cur.url \notin Urls(failedUrls)

\* C23: once a URL has been fetched, the loop is at its head, or at the first
\* attempt for another URL, only after the sleep of options.delay that ended
\* the iteration of the URL fetched before, whether that iteration ended in
\* a page, a skip or a failure; with a delay of 0 there is no sleep.
C23_DelayBetweenUrls ==
    /\ (options.delay > 0 /\ pc \in {"loop"} \cup afterLoop /\ visited # {}) =>
           paused = << options.delay >>
    /\ (options.delay > 0 /\ pc \in {"fetch", "backoff"} /\ visited # {cur.url}) =>
           paused = << options.delay >>
    /\ pc = "delay" => paused = <<>>
    /\ options.delay = 0 => paused = <<>>

\* the first attempt for a URL starts after the sleep that followed the
\* failure of the URL before it
C23_Witness ==
    /\ options.delay > 0
    /\ pc = "fetch"
    /\ fetches = 0
    /\ paused = << options.delay >>
    /\ failedUrls # <<>>
    /\ Last(failedUrls).url \in visited
    /\ Len(results) = 1
    /\ skippedUrls = <<>>

\* C24: with respectRobots set and ignoreRestrictions clear, a crawl whose
\* robots.txt could not be loaded runs without directives: no skip record
\* has the reason "robots.txt blocked", and once an item has been dequeued
\* the seed has been handed to crawlPage, once, and ends in a record.
C24_RobotsLoadFailure ==
    (/\ options.respectRobots
     /\ ~options.ignoreRestrictions
     /\ pc # "new"
     /\ ~robots.loaded) =>
        /\ robotsSkipped = {}
        /\ cur # NoItem =>
               /\ baseUrl.value \in visited
               /\ Calls(baseUrl.value) = 1
               /\ pc \notin fetching =>
                      baseUrl.value \in Urls(results \o failedUrls \o skippedUrls)

\* robots.txt failed to load and the session was saved with the seed as
\* a page
C24_Witness ==
    /\ options.respectRobots
    /\ ~options.ignoreRestrictions
    /\ ~robots.loaded
    /\ pc = "done"
    /\ baseUrl.value \in Urls(results)
    /\ Len(results) = 2

\* the statuses makeRequest never retries when ignoreRestrictions is clear
nonRetryable ==
    IF options.skipUnauthorized THEN authRelatedCodes \cup skipCodes
    ELSE {404, 410}

\* C25: in every mode a URL is fetched at most retries + 1 times, in one
\* call of crawlPage: while its attempts run the current item stays and
\* nothing is dequeued, and crawlPage is called once per URL; and a URL is
\* pushed to failedUrls only by an attempt that found the budget spent or
\* ended in a status that is not retried.
C25_AttemptBudget ==
    /\ [](/\ fetches <= options.retries + 1
          /\ retryCount <= options.retries
          /\ pc = "fetch" => fetches = retryCount
          /\ pc = "backoff" =>
                 fetches = retryCount + 1 /\ retryCount < options.retries
          /\ pc = "delay" => fetches = retryCount + 1
          /\ pc \notin fetching => fetches = 0
          /\ \A u \in DOMAIN crawlCalls : crawlCalls[u] = 1)
    /\ [][pc = "fetch" =>
             /\ cur' = cur
             /\ pc' \in {"backoff", "delay"}
             /\ fetches' = fetches + 1
             /\ crawlCalls' = crawlCalls
             /\ SubSeq(queue', 1, Len(queue)) = queue]_vars
    /\ [][pc = "backoff" =>
             /\ cur' = cur
             /\ pc' = "fetch"
             /\ fetches' = fetches
             /\ crawlCalls' = crawlCalls
             /\ queue' = queue]_vars
    /\ [][Len(failedUrls') > Len(failedUrls) =>
             /\ pc = "fetch" /\ pc' = "delay"
             /\ Last(failedUrls').url = cur.url
             /\ \/ retryCount = options.retries
                \/ /\ ~options.ignoreRestrictions
                   /\ lastOutcome'.status \in nonRetryable]_vars

\* a URL of a session with a page failed on its last allowed attempt,
\* answered 502
C25_Witness ==
    /\ pc = "delay"
    /\ options.retries = MaxPolicyRetries
    /\ fetches = MaxPolicyRetries + 1
    /\ cur.url \in Urls(failedUrls)
    /\ lastOutcome.status = 502
    /\ results # <<>>

\* C26: the depths of the queued items do not decrease from head to tail and
\* the tail is at most one level below the head; a page without parent is
\* the seed at depth 0, the only page of depth 0; the parent of any other
\* page is a page one level above it, which stands before it in results as
\* long as results is in the order of the appends (until saveSummary).
C26_DepthStructure ==
    /\ \A i, j \in 1..Len(queue) : i < j => queue[i].depth <= queue[j].depth
    /\ queue # <<>> => Last(queue).depth - Head(queue).depth <= 1
    /\ \A i \in 1..Len(results) :
           /\ results[i].parent = Null <=> results[i].depth = 0
           /\ results[i].depth = 0 => Str(results[i].url) = baseUrl
           /\ results[i].parent # Null =>
                  \E h \in 1..Len(results) :
                      /\ Str(results[h].url) = results[i].parent
                      /\ results[h].depth + 1 = results[i].depth
                      /\ \E n \in 1..Len(results[h].links) :
                             results[h].links[n].url = results[i].url
                      /\ pc \in beforeSummary => h < i
    /\ \A i, j \in 1..Len(results) :
           results[i].depth = 0 /\ results[j].depth = 0 => i = j

\* pages of three levels are recorded, the last one found on a page of
\* depth 1 while an item of depth 1 was waiting
C26_Witness ==
    /\ pc = "delay"
    /\ { results[i].depth : i \in 1..Len(results) } = {0, 1, 2}
    /\ Len(results) = 4
    /\ Last(results).depth = 2

\* the number of output lists that hold a record for url
listsHolding(url) ==
    Cardinality({ l \in {"pages", "skips", "failures"} :
                    url \in Urls(CASE l = "pages" -> results
                                   [] l = "skips" -> skippedUrls
                                   [] l = "failures" -> failedUrls) })

\* C27: once processQueue has ended with an empty queue, every URL pushed to
\* the queue at a depth of at most maxDepth is in exactly one of results,
\* skippedUrls and failedUrls, and every link of a page of depth below
\* maxDepth is visited or in skippedUrls.
C27_NoWorkLost ==
    (pc \in afterLoop /\ queue = <<>>) =>
        /\ \A item \in enqueued :
               item.depth <= options.maxDepth => listsHolding(item.url) = 1
        /\ \A i \in 1..Len(results) :
               results[i].depth < options.maxDepth =>
                   \A n \in 1..Len(results[i].links) :
                       \/ results[i].links[n].url \in visited
                       \/ results[i].links[n].url \in Urls(skippedUrls)

\* a session saved with an empty queue below the cap: a page whose links
\* were followed, one of them to a skip and one to a failure
C27_Witness ==
    /\ pc = "done"
    /\ queue = <<>>
    /\ Len(results) < options.maxPages
    /\ \E i \in 1..Len(results) :
           results[i].depth < options.maxDepth /\ results[i].links # <<>>
    /\ skippedUrls # <<>>
    /\ failedUrls # <<>>
    /\ Cardinality(enqueued) >= 3

====
